---- MODULE Spec2Model ----
(***************************************************************************)
(* The projections dashboard view of NBAWeb (NBAWeb/NBAWeb/views.py).      *)
(*                                                                         *)
(* home(request) looks for data_feed/projections.csv, reads it with       *)
(* pandas, rounds the floating-point columns to one decimal place, builds  *)
(* the list of unique matchups and hands a context to Django's render.     *)
(* The CSV is produced by an external process (the R script) that may      *)
(* overwrite or remove it at any time.                                     *)
(*                                                                         *)
(* Numbers are fixed point: an integer v stands for v / 1000.              *)
(* A request touches the disk twice, at os.path.exists and at pd.read_csv; *)
(* these are the points where the external process can interleave, so the *)
(* request is split into steps there and before the render call.           *)
(***************************************************************************)
EXTENDS Integers, Sequences, FiniteSets, TLC

VARIABLES
    disk,             \* data_feed/projections.csv as it is on disk now
    pc,               \* position of the request inside home()
    context,          \* the dict built at lines 11-14 and filled afterwards
    df,               \* the DataFrame of lines 19-20
    seen_matchups,    \* the set of line 23
    unique_matchups,  \* the list of line 24
    existed,          \* history: what os.path.exists answered in this request
    read              \* history: the disk content pd.read_csv met in this request

vars == <<disk, pc, context, df, seen_matchups, unique_matchups, existed, read>>

(***************************************************************************)
(* Bounds of the model.                                                    *)
(***************************************************************************)
\* longest CSV (data rows) home() is applied to in SpecCsv
MaxRows == 2

(***************************************************************************)
(* CSV files.                                                              *)
(***************************************************************************)
Columns == {"team_abbreviation", "opponent", "pts"}
TextColumns == {"team_abbreviation", "opponent"}

\* team codes, and their order under Python's str comparison
Teams == {"BOS", "LAL"}
Rank(code) == IF code = "BOS" THEN 1 ELSE 2

\* an empty field: pandas reads it as the float NaN
NaN == "nan"

\* projection values in thousandths: 24.333, 10.667, 0.250
Values == {24333, 10667, 250}

\* the rows over the columns cs; a row has a code or NaN in a text column and
\* a number in pts. Rows with both codes missing are left out of the domain.
RowsOver(cs, vals) ==
    LET all == { [c \in cs |-> IF c = "team_abbreviation" THEN t
                               ELSE IF c = "opponent" THEN o ELSE v] :
                   t \in Teams \cup {NaN}, o \in Teams \cup {NaN}, v \in vals }
    IN  { r \in all : (TextColumns \subseteq cs) =>
                         ~(r["team_abbreviation"] = NaN /\ r["opponent"] = NaN) }

SeqsUpTo(S, n) == UNION { [1..k -> S] : k \in 0..n }

CsvFiles(n, vals) ==
    UNION { { [kind |-> "csv", columns |-> cs, rows |-> rs] :
                rs \in SeqsUpTo(RowsOver(cs, vals), n) } :
            cs \in (SUBSET Columns) \ {{}} }

\* a file pandas cannot tokenize, a file the process may not open, no file
Malformed == [kind |-> "malformed", columns |-> {}, rows |-> <<>>]
Unreadable == [kind |-> "unreadable", columns |-> {}, rows |-> <<>>]
NoFile == [kind |-> "absent", columns |-> {}, rows |-> <<>>]
Unread == [kind |-> "unread", columns |-> {}, rows |-> <<>>]

Files == CsvFiles(MaxRows, Values) \cup {Malformed, Unreadable}

\* the files the external process leaves on disk in Spec
Row(t, o, v) == [team_abbreviation |-> t, opponent |-> o, pts |-> v]
Csv(cs, rs) == [kind |-> "csv", columns |-> cs, rows |-> rs]
ScenarioA == Csv(Columns, <<Row("LAL", "BOS", 24333), Row("BOS", "LAL", 10667)>>)
ScenarioB == Csv(Columns, <<Row("BOS", "BOS", 250), Row("LAL", "BOS", 24333)>>)
HeaderOnly == Csv(Columns, <<>>)
NoOpponent == Csv({"team_abbreviation", "pts"},
                  << [team_abbreviation |-> "LAL", pts |-> 10667] >>)
MissingCode == Csv(Columns, <<Row("LAL", "BOS", 24333), Row(NaN, "BOS", 250)>>)
WriterFiles ==
    {ScenarioA, ScenarioB, HeaderOnly, NoOpponent, MissingCode, Malformed, Unreadable}

(***************************************************************************)
(* Exceptions. Every exception the body can raise here derives from        *)
(* Exception, which is what the handler at line 36 names.                  *)
(***************************************************************************)
NoExc == [type |-> "none", desc |-> ""]
Raise(t, d) == [type |-> t, desc |-> d]

ExceptionSubclasses ==
    {"FileNotFoundError", "PermissionError", "ParserError", "KeyError", "TypeError"}

CatchesKeyErrorOnly(e) == e.type = "KeyError"

\* line 36: except Exception as e
Catches(e) == e.type \in ExceptionSubclasses

(***************************************************************************)
(* The context dict.                                                       *)
(***************************************************************************)
Put(ctx, key, value) ==
    [k \in DOMAIN ctx \cup {key} |-> IF k = key THEN value ELSE ctx[k]]

\* lines 11-14
NewContext == [title |-> "NBA AI Projections", year |-> 2026]

FileNotFoundMsg == "File not found. Please run the R script."

MissingFileContextWrongText(ctx) == Put(ctx, "error", "Error loading data: ")

\* line 35
MissingFileContext(ctx) == Put(ctx, "error", FileNotFoundMsg)

ExceptHandlerKeepsGames(ctx, e) ==
    Put(Put(ctx, "error", "Error loading data: " \o e.desc), "games", <<>>)

\* line 37: f"Error loading data: {e}"
ExceptHandler(ctx, e) == Put(ctx, "error", "Error loading data: " \o e.desc)

(***************************************************************************)
(* pd.read_csv and DataFrame.round.                                        *)
(***************************************************************************)
NoFrame == [columns |-> {}, rows |-> <<>>]

\* line 19: the frame, or the exception pandas raises
read_csv(f) ==
    CASE f.kind = "absent" ->
           [exc |-> Raise("FileNotFoundError",
                          "[Errno 2] No such file or directory: 'data_feed/projections.csv'"),
            frame |-> NoFrame]
      [] f.kind = "unreadable" ->
           [exc |-> Raise("PermissionError",
                          "[Errno 13] Permission denied: 'data_feed/projections.csv'"),
            frame |-> NoFrame]
      [] f.kind = "malformed" ->
           [exc |-> Raise("ParserError", "Error tokenizing data"),
            frame |-> NoFrame]
      [] OTHER ->
           [exc |-> NoExc, frame |-> [columns |-> f.columns, rows |-> f.rows]]

Truncate1(v) == (v \div 100) * 100

\* numpy's around(x, 1): to the nearest tenth, a tie to the even tenth
Round1(v) ==
    LET q == v \div 100
        r == v % 100
    IN  IF r < 50 THEN q * 100
        ELSE IF r > 50 THEN (q + 1) * 100
        ELSE IF q % 2 = 0 THEN q * 100 ELSE (q + 1) * 100

\* line 20: float columns are rounded, object (text) columns are left alone
round(frame) ==
    [frame EXCEPT !.rows =
        [i \in DOMAIN frame.rows |->
            [c \in DOMAIN frame.rows[i] |->
                IF c \in TextColumns THEN frame.rows[i][c]
                                     ELSE Round1(frame.rows[i][c])]]]

(***************************************************************************)
(* The matchup loop, lines 23-30.                                          *)
(***************************************************************************)
\* Python's < on two field values: defined on two str, and on two floats
\* (always False with a NaN); str against float raises TypeError
AlwaysComparable(x, y) == TRUE

Comparable(x, y) == (x = NaN) = (y = NaN)

Less(x, y) == x # NaN /\ y # NaN /\ Rank(x) < Rank(y)

Unsorted(a, b) == <<a, b>>

\* line 27: tuple(sorted([a, b])); the sort is stable and asks whether b < a
sorted(a, b) == IF Less(b, a) THEN <<b, a>> ELSE <<a, b>>

TypeErrorOf(a, b) ==
    IF a = NaN
    THEN Raise("TypeError", "'<' not supported between instances of 'str' and 'float'")
    ELSE Raise("TypeError", "'<' not supported between instances of 'float' and 'str'")

SortedLabel(a, b) == sorted(a, b)[1] \o " vs " \o sorted(a, b)[2]

\* line 30: f"{row['team_abbreviation']} vs {row['opponent']}"
MatchupLabel(a, b) == a \o " vs " \o b

StaleSeenMatchups == seen_matchups

\* line 23
NewSeenMatchups == {}

\* line 24
NewUniqueMatchups == <<>>

\* lines 27-30 for one row; st is [seen, unique, exc]
LoopBody(row, st) ==
    IF "team_abbreviation" \notin DOMAIN row
    THEN [st EXCEPT !.exc = Raise("KeyError", "'team_abbreviation'")]
    ELSE IF "opponent" \notin DOMAIN row
    THEN [st EXCEPT !.exc = Raise("KeyError", "'opponent'")]
    ELSE LET a == row["team_abbreviation"]
             b == row["opponent"]
         IN  IF ~Comparable(b, a)
             THEN [st EXCEPT !.exc = TypeErrorOf(a, b)]
             ELSE IF sorted(a, b) \in st.seen
             THEN st
             ELSE [st EXCEPT !.seen = st.seen \cup {sorted(a, b)},
                             !.unique = Append(st.unique, MatchupLabel(a, b))]

\* line 26: for _, row in df.iterrows(), from row i on; stops at an exception
RECURSIVE iterrows(_, _, _)
iterrows(rows, i, st) ==
    IF i > Len(rows) \/ st.exc # NoExc
    THEN st
    ELSE iterrows(rows, i + 1, LoopBody(rows[i], st))

DropFirstRecord(frame) ==
    IF frame.rows = <<>> THEN <<>> ELSE Tail(frame.rows)

\* line 32: df.to_dict('records')
to_dict(frame) == frame.rows

(***************************************************************************)
(* The body of the try statement once the file was found, lines 19-33.     *)
(* The result carries the exception raised, if any, and the locals as the  *)
(* body left them: a local assigned before the raise keeps its new value.  *)
(***************************************************************************)
TryBody(ctx, f) ==
    LET rd == read_csv(f)
    IN  IF rd.exc # NoExc
        THEN [exc |-> rd.exc, df |-> df, seen |-> seen_matchups,
              unique |-> unique_matchups, context |-> ctx]
        ELSE LET frame == round(rd.frame)
                 st == iterrows(frame.rows, 1,
                                [seen |-> NewSeenMatchups,
                                 unique |-> NewUniqueMatchups,
                                 exc |-> NoExc])
             IN  [exc |-> st.exc, df |-> frame, seen |-> st.seen,
                  unique |-> st.unique,
                  context |-> IF st.exc # NoExc
                              THEN ctx
                              ELSE Put(Put(ctx, "projections", to_dict(frame)),
                                       "games", st.unique)]

(***************************************************************************)
(* The steps of a request.                                                 *)
(***************************************************************************)
Init ==
    /\ disk = NoFile
    /\ pc = "idle"
    /\ context = NewContext
    /\ df = NoFrame
    /\ seen_matchups = {}
    /\ unique_matchups = <<>>
    /\ existed = FALSE
    /\ read = Unread

\* lines 5-14: a request arrives; a new context is built
Request ==
    /\ pc \in {"idle", "returned", "raised"}
    /\ pc' = "exists"
    /\ context' = NewContext
    /\ existed' = FALSE
    /\ read' = Unread
    /\ UNCHANGED <<disk, df, seen_matchups, unique_matchups>>

\* lines 17-18 and 34-35: os.path.exists(csv_path), and the else branch
PathExists ==
    /\ pc = "exists"
    /\ existed' = (disk # NoFile)
    /\ IF disk # NoFile
       THEN pc' = "load" /\ UNCHANGED context
       ELSE pc' = "render" /\ context' = MissingFileContext(context)
    /\ UNCHANGED <<disk, df, seen_matchups, unique_matchups, read>>

\* lines 19-33 and 36-37: read, round, collect the matchups, fill the context;
\* an exception on the way goes to the handler
LoadData ==
    /\ pc = "load"
    /\ read' = disk
    /\ LET r == TryBody(context, disk)
       IN  /\ df' = r.df
           /\ seen_matchups' = r.seen
           /\ unique_matchups' = r.unique
           /\ IF r.exc = NoExc
              THEN pc' = "render" /\ context' = r.context
              ELSE IF Catches(r.exc)
              THEN pc' = "render" /\ context' = ExceptHandler(r.context, r.exc)
              ELSE pc' = "raised" /\ context' = r.context
    /\ UNCHANGED <<disk, existed>>

\* line 39: render(request, 'index.html', context) returns the response
RenderReturns ==
    /\ pc = "render"
    /\ pc' = "returned"
    /\ UNCHANGED <<disk, context, df, seen_matchups, unique_matchups, existed, read>>

\* line 39: render raises (the template is missing or fails); the call is
\* outside the try statement, so the exception leaves home()
RenderRaises ==
    /\ pc = "render"
    /\ pc' = "raised"
    /\ UNCHANGED <<disk, context, df, seen_matchups, unique_matchups, existed, read>>

(***************************************************************************)
(* The external data-generation process.                                   *)
(***************************************************************************)
WriteFile(f) ==
    /\ disk' = f
    /\ UNCHANGED <<pc, context, df, seen_matchups, unique_matchups, existed, read>>

DeleteFile ==
    /\ disk # NoFile
    /\ disk' = NoFile
    /\ UNCHANGED <<pc, context, df, seen_matchups, unique_matchups, existed, read>>

Next ==
    \/ Request
    \/ PathExists
    \/ LoadData
    \/ RenderReturns
    \/ RenderRaises
    \/ \E f \in WriterFiles : WriteFile(f)
    \/ DeleteFile

Spec == Init /\ [][Next]_vars

(***************************************************************************)
(* home() applied to each file of the domain, with nothing else running.   *)
(***************************************************************************)
InitCsv ==
    /\ disk \in Files \cup {NoFile}
    /\ pc = "idle"
    /\ context = NewContext
    /\ df = NoFrame
    /\ seen_matchups = {}
    /\ unique_matchups = <<>>
    /\ existed = FALSE
    /\ read = Unread

NextCsv ==
    \/ Request
    \/ PathExists
    \/ LoadData
    \/ RenderReturns
    \/ RenderRaises

SpecCsv == InitCsv /\ [][NextCsv]_vars

(***************************************************************************)
(* What a request should show, stated from the file alone. These are the   *)
(* yardsticks the properties below compare the context against; they do    *)
(* not use the loop, the sort or the rounding step of the model.           *)
(***************************************************************************)
\* the request has filled its context and is at, or past, the render call
Built == pc \in {"render", "returned", "raised"}

Has(key) == key \in DOMAIN context

Abs(n) == IF n < 0 THEN -n ELSE n

\* a CSV with both code columns and a code in every row
ValidCsv(f) ==
    /\ f.kind = "csv"
    /\ TextColumns \subseteq f.columns
    /\ \A i \in DOMAIN f.rows :
          f.rows[i]["team_abbreviation"] # NaN /\ f.rows[i]["opponent"] # NaN

\* row i of a CSV with rows cannot be processed
RowFails(f, i) ==
    \/ ~(TextColumns \subseteq f.columns)
    \/ (f.rows[i]["team_abbreviation"] = NaN) # (f.rows[i]["opponent"] = NaN)

\* reading or processing the content f raises
Fails(f) ==
    \/ f.kind \in {"absent", "malformed", "unreadable"}
    \/ f.kind = "csv" /\ \E i \in DOMAIN f.rows : RowFails(f, i)

\* the text of the exception that ends the processing of f
ExpectedDescription(f) ==
    CASE f.kind = "absent" ->
           "[Errno 2] No such file or directory: 'data_feed/projections.csv'"
      [] f.kind = "unreadable" ->
           "[Errno 13] Permission denied: 'data_feed/projections.csv'"
      [] f.kind = "malformed" -> "Error tokenizing data"
      [] OTHER ->
           LET i == CHOOSE k \in DOMAIN f.rows :
                       RowFails(f, k) /\ \A j \in 1..(k - 1) : ~RowFails(f, j)
           IN  IF "team_abbreviation" \notin f.columns THEN "'team_abbreviation'"
               ELSE IF "opponent" \notin f.columns THEN "'opponent'"
               ELSE IF f.rows[i]["team_abbreviation"] = NaN
               THEN "'<' not supported between instances of 'str' and 'float'"
               ELSE "'<' not supported between instances of 'float' and 'str'"

\* the unordered pair of a row, and the pairs of a file
Pair(row) == {row["team_abbreviation"], row["opponent"]}
Pairs(rows) == {Pair(rows[i]) : i \in DOMAIN rows}

\* the two display strings an unordered pair can have
LabelsOf(P) == {a \o " vs " \o b : <<a, b>> \in {q \in P \X P : {q[1], q[2]} = P}}

\* the rows whose pair no earlier row has, and the k-th of them
FirstRows(rows) ==
    {i \in DOMAIN rows : \A j \in 1..(i - 1) : Pair(rows[j]) # Pair(rows[i])}
Nth(S, k) == CHOOSE i \in S : Cardinality({j \in S : j <= i}) = k

ExpectedGames(rows) ==
    [k \in 1..Cardinality(FirstRows(rows)) |->
        LET row == rows[Nth(FirstRows(rows), k)]
        IN  row["team_abbreviation"] \o " vs " \o row["opponent"]]

\* the multiple of a tenth nearest to v, the even one of two
NearestTenth(v) ==
    CHOOSE m \in (v - 50)..(v + 50) :
        m % 100 = 0 /\ (Abs(m - v) = 50 => (m \div 100) % 2 = 0)

ExpectedProjections(f) ==
    [i \in DOMAIN f.rows |->
        [c \in f.columns |-> IF c = "pts" THEN NearestTenth(f.rows[i][c])
                                          ELSE f.rows[i][c]]]

ErrorContext(text) ==
    [title |-> "NBA AI Projections", year |-> 2026, error |-> text]

\* the context of a request that found the file (or not: ex) and read f
ExpectedContext(ex, f) ==
    IF ~ex THEN ErrorContext("File not found. Please run the R script.")
    ELSE IF Fails(f) THEN ErrorContext("Error loading data: " \o ExpectedDescription(f))
    ELSE [title |-> "NBA AI Projections", year |-> 2026,
          projections |-> ExpectedProjections(f),
          games |-> ExpectedGames(f.rows)]

(***************************************************************************)
(* Properties.                                                             *)
(***************************************************************************)

\* C1: when no projections.csv is on disk, the context of the request is
\* exactly title, year and the error "File not found. Please run the R
\* script."; it has no projections and no games.
C1_MissingFile ==
    (Built /\ disk = NoFile) =>
        /\ DOMAIN context = {"title", "year", "error"}
        /\ context["error"] = "File not found. Please run the R script."

\* a request on a disk without the file has reached the render call
C1_Witness ==
    pc = "render" /\ disk = NoFile /\ ~existed /\ Has("error")

\* C2 as stated: no exception ever leaves home(), the render call included.
C2_NoExceptionPropagates == pc # "raised"

\* C2 amended: every failure before the render call (missing file, I/O
\* error, malformed CSV, missing column, codes that cannot be compared) ends
\* as the 'error' field of the context, and an exception leaves home() only
\* from the render call at line 39, which is outside the try statement.
C2_OnlyRenderPropagates ==
    /\ [](((pc = "render") /\ (~existed \/ Fails(read))) => Has("error"))
    /\ [][(pc # "raised" /\ pc' = "raised") => pc = "render"]_vars

\* a file that cannot be opened was converted into the error field
C2_Witness ==
    pc = "render" /\ existed /\ read.kind = "unreadable" /\ Has("error")

\* C3: for a valid CSV, games has one entry per distinct unordered
\* {team_abbreviation, opponent} pair of the file: as many entries as pairs,
\* and each pair shown by exactly one entry, in either orientation.
C3_OneGamePerPair ==
    (Built /\ existed /\ ValidCsv(read)) =>
        /\ Has("games")
        /\ Len(context["games"]) = Cardinality(Pairs(read.rows))
        /\ \A P \in Pairs(read.rows) :
              Cardinality({k \in DOMAIN context["games"] :
                              context["games"][k] \in LabelsOf(P)}) = 1

\* an A/B row and a B/A row were collapsed into one entry
C3_Witness ==
    /\ Built /\ existed /\ ValidCsv(read) /\ Len(read.rows) = 2
    /\ read.rows[1]["team_abbreviation"] = read.rows[2]["opponent"]
    /\ read.rows[1]["opponent"] = read.rows[2]["team_abbreviation"]
    /\ read.rows[1]["team_abbreviation"] # read.rows[1]["opponent"]
    /\ Has("games") /\ Len(context["games"]) = 1

\* C4: for a valid CSV, games lists the pairs in the order of their first
\* row in the file, each as "<team_abbreviation> vs <opponent>" of that first
\* row, unsorted; a later row of the same pair changes nothing.
C4_FirstSeenOrder ==
    (Built /\ existed /\ ValidCsv(read)) =>
        Has("games") /\ context["games"] = ExpectedGames(read.rows)

\* the first row is LAL at BOS, the reversed row follows: the entry keeps
\* the first row's orientation, which is not the sorted one
C4_Witness ==
    /\ Built /\ existed /\ Len(read.rows) = 2 /\ ValidCsv(read)
    /\ Pair(read.rows[1]) = Pair(read.rows[2])
    /\ read.rows[2]["team_abbreviation"] = "BOS"
    /\ Has("games") /\ context["games"] = <<"LAL vs BOS">>

\* C5: when the file exists and reading or processing it raises, the context
\* is title, year and an error "Error loading data: <description>", without
\* projections or games, also when matchups had been collected before.
C5_ProcessingError ==
    (Built /\ existed /\ Fails(read)) =>
        /\ DOMAIN context = {"title", "year", "error"}
        /\ context["error"] = "Error loading data: " \o ExpectedDescription(read)

\* the second row failed after the first had been put on the matchup list
C5_Witness ==
    /\ Built /\ existed /\ Fails(read) /\ read.kind = "csv"
    /\ unique_matchups # <<>> /\ Has("error")

\* C6: for a valid CSV with n rows, projections has n mappings, the i-th for
\* the i-th row, each with every column of the header; a header-only file
\* gives empty projections, empty games and no error.
C6_EveryRowInOrder ==
    /\ (Built /\ existed /\ ValidCsv(read)) =>
          /\ Has("projections")
          /\ Len(context["projections"]) = Len(read.rows)
          /\ \A i \in DOMAIN read.rows :
                /\ DOMAIN context["projections"][i] = read.columns
                /\ \A c \in read.columns :
                      IF c \in TextColumns
                      THEN context["projections"][i][c] = read.rows[i][c]
                      ELSE Abs(context["projections"][i][c] - read.rows[i][c]) <= 50
    /\ (Built /\ existed /\ read.kind = "csv" /\ read.rows = <<>>) =>
          /\ DOMAIN context = {"title", "year", "projections", "games"}
          /\ context["projections"] = <<>>
          /\ context["games"] = <<>>

\* two rows of the same matchup and different values: both are in projections
C6_Witness ==
    /\ Built /\ existed /\ ValidCsv(read) /\ Len(read.rows) = 2
    /\ read.columns = Columns
    /\ Pair(read.rows[1]) = Pair(read.rows[2])
    /\ read.rows[1]["pts"] # read.rows[2]["pts"]
    /\ Has("projections") /\ Len(context["projections"]) = 2

\* C7: for a valid CSV, every numeric field in projections is the source
\* value rounded to one decimal (a multiple of 0.1 at most 0.05 away), the
\* two code fields are unchanged, and games is the matchup list of these
\* rounded rows.
C7_RoundedToOneDecimal ==
    (Built /\ existed /\ ValidCsv(read)) =>
        /\ Has("projections") /\ Has("games")
        /\ DOMAIN context["projections"] = DOMAIN read.rows
        /\ \A i \in DOMAIN read.rows :
              /\ \A c \in read.columns \ TextColumns :
                    /\ context["projections"][i][c] % 100 = 0
                    /\ Abs(context["projections"][i][c] - read.rows[i][c]) <= 50
              /\ \A c \in TextColumns :
                    context["projections"][i][c] = read.rows[i][c]
        /\ context["games"] = ExpectedGames(context["projections"])

\* 24.333 became 24.3 and 10.667 became 10.7
C7_Witness ==
    /\ Built /\ existed /\ ValidCsv(read) /\ Len(read.rows) = 2
    /\ read.columns = Columns
    /\ read.rows[1]["pts"] = 24333 /\ read.rows[2]["pts"] = 10667
    /\ Has("projections")
    /\ context["projections"][1]["pts"] = 24300
    /\ context["projections"][2]["pts"] = 10700

\* C8: the context of a request is a function of what that request met on
\* disk (whether the file existed, and the content it read): nothing of an
\* earlier request is carried over.
C8_NothingCarriedOver ==
    Built => context = ExpectedContext(existed, read)

\* the matchups of an earlier request are still in memory while this request,
\* which met an unreadable file, shows only its own error
C8_Witness ==
    /\ pc = "render" /\ existed /\ read = Unreadable
    /\ unique_matchups = <<"LAL vs BOS">>
    /\ DOMAIN context = {"title", "year", "error"}

\* C9: every request that finds no CSV, at the existence check or at the
\* read, shows "File not found. Please run the R script."
C9_MissingFileMessage ==
    (Built /\ (~existed \/ read = NoFile)) =>
        Has("error") /\ context["error"] = "File not found. Please run the R script."

\* C10: the context passed to render has title 'NBA AI Projections' and year
\* 2026 and, besides, either error alone or projections and games together.
C10_ContextShape ==
    Built =>
        /\ Has("title") /\ context["title"] = "NBA AI Projections"
        /\ Has("year") /\ context["year"] = 2026
        /\ \/ DOMAIN context = {"title", "year", "error"}
           \/ DOMAIN context = {"title", "year", "projections", "games"}

\* a request ended by an error raised inside the loop, after a matchup had
\* been collected: the context carries the error and no data
C10_Witness ==
    /\ pc = "render" /\ existed
    /\ read = MissingCode /\ seen_matchups # {}
    /\ DOMAIN context = {"title", "year", "error"}

====
